---- MODULE Spec2Model ----
(***************************************************************************)
(* Model of the YouTube audio downloader.                                  *)
(*                                                                         *)
(* Server side (specification Spec):                                       *)
(*   - the audio download handler  POST /api/download                      *)
(*     (src/unnamed/part_000, lines 81-221), and                           *)
(*   - the metadata handler        POST /api/test                          *)
(*     (src/app/api/test/route.ts, lines 41-106).                          *)
(* One request is handled at a time.  A handler runs atomically between    *)
(* its await points: request.json(), ytdl.getInfo() and the chunks of the  *)
(* audio stream.  The resolver (ytdl) is the environment: each of its      *)
(* answers is a nondeterministic choice.                                   *)
(*                                                                         *)
(* Strings that the code only compares or copies are TLA+ strings; strings *)
(* that the code rewrites character by character (titles) are sequences of *)
(* one-character strings.                                                  *)
(*                                                                         *)
(* Filename sanitization (specification SanSpec): the server's title       *)
(* derivation (part_000:127-130) and the client's filename stem            *)
(* (src/unnamed/part_001:215-224), applied to titles drawn from a bounded  *)
(* set.                                                                    *)
(*                                                                         *)
(* Client side (specification ClientSpec): the component                   *)
(* YouTubeDownloader of src/unnamed/part_001: handleUrlChange,             *)
(* fetchVideoInfo, handleDownload, convertToMp3 and resetDownload, with    *)
(* the user's edits and clicks, the timers and the completions of the      *)
(* requests.                                                               *)
(***************************************************************************)
EXTENDS Naturals, Sequences, FiniteSets, TLC

(***************************************************************************)
(* Bounds of the model.                                                    *)
(***************************************************************************)
\* longest format list the resolver answers with (besides ExampleLists)
MaxFormats == 2
\* most chunks an audio stream delivers before it ends or fails
MaxChunks == 2
\* longest title drawn from the whole alphabet
MaxTitleLen == 3
\* most sanitizations applied to one title in a row
MaxPasses == 2
\* most invocations of the client's handleDownload in flight at once
MaxDownloads == 2
\* most metadata lookups of the client pending at once (timers and requests)
MaxLookups == 2

VARIABLES
  endpoint,     \* which handler is running: "none", "download", "metadata"
  pc,           \* "idle", "info1", "info2", "stream", "metaInfo", "done"
  parsed,       \* request.json() resolved (FALSE: it rejected)
  body,         \* the parsed JSON body: a record, a missing field is absent
  title,        \* POST's local `title`
  info1,        \* outcome of the first getInfo: "none", "ok", "failed"
  info2,        \* outcome of the second getInfo: "none", "ok", "failed"
  formats,      \* info.formats of the second getInfo, while in scope
  audioFormats, \* POST's local `audioFormats`, while in scope
  streamReq,    \* the options of the ytdl(url, options) call made
  chunks,       \* POST's local `chunks`
  caught,       \* the error caught by the handler's outer catch
  calls,        \* resolver operations requested while handling this request
  response,     \* the response returned
  \* filename sanitization
  sanIn,        \* the title the sanitizations started from
  sanPrev,      \* the string the last sanitization was applied to
  sanOut,       \* the result of the last sanitization
  sanLog,       \* the modes applied so far: "standard", "compat"
  \* the client component YouTubeDownloader
  url,           \* useState: the content of the URL field
  downloadState, \* useState: isDownloading, progress, status, error
  videoInfo,     \* useState: the metadata displayed, or none
  isLoadingInfo, \* useState: the lookup spinner
  downloads,     \* the invocations of handleDownload in flight: where each
                 \* one is suspended, oldest first
  timers,        \* the timeouts set by handleUrlChange and not yet fired:
                 \* the URL each one will look up, oldest first
  metaReqs,      \* the metadata requests sent and not yet answered: the URL
                 \* of each
  shown          \* the progress values written since the user last started
                 \* a download, in order; empty after a reset

serverVars == <<endpoint, pc, parsed, body, title, info1, info2, formats,
                audioFormats, streamReq, chunks, caught, calls, response>>

sanVars == <<sanIn, sanPrev, sanOut, sanLog>>

clientVars == <<url, downloadState, videoInfo, isLoadingInfo, downloads,
                timers, metaReqs, shown>>

\* everything the two route handlers never touch
nonServerVars == <<sanVars, clientVars>>

\* everything the sanitizations never touch
nonSanVars == <<serverVars, clientVars>>

\* everything the client component never touches
nonClientVars == <<serverVars, sanVars>>

vars == <<serverVars, sanVars, clientVars>>

(***************************************************************************)
(* Characters and titles.                                                  *)
(***************************************************************************)
LowerLetters ==
  {"a","b","c","d","e","f","g","h","i","j","k","l","m",
   "n","o","p","q","r","s","t","u","v","w","x","y","z"}

UpperLetters ==
  {"A","B","C","D","E","F","G","H","I","J","K","L","M",
   "N","O","P","Q","R","S","T","U","V","W","X","Y","Z"}

Digits == {"0","1","2","3","4","5","6","7","8","9"}

\* JavaScript's \w (no unicode flag): [A-Za-z0-9_]
IsWordChar(c) == c \in LowerLetters \cup UpperLetters \cup Digits \cup {"_"}

\* JavaScript's \s, as far as the model's alphabet goes: space, tab, newline
IsSpace(c) == c \in {" ", "\t", "\n"}

\* 'youtube_audio'
DefaultTitle == <<"y","o","u","t","u","b","e","_","a","u","d","i","o">>

\* the characters .replace(/[^\w\s-]/g, '') keeps
KeptStd(c) == IsWordChar(c) \/ IsSpace(c) \/ c = "-"

RECURSIVE StripStd(_)
\* .replace(/[^\w\s-]/g, '')
StripStd(s) ==
  IF s = <<>> THEN <<>>
  ELSE IF KeptStd(Head(s)) THEN <<Head(s)>> \o StripStd(Tail(s))
       ELSE StripStd(Tail(s))

RECURSIVE SpacesToUnderscore(_)
\* .replace(/\s+/g, '_'): every maximal run of whitespace becomes one "_"
SpacesToUnderscore(s) ==
  IF s = <<>> THEN <<>>
  ELSE IF IsSpace(Head(s))
       THEN IF Len(s) > 1 /\ IsSpace(s[2])
            THEN SpacesToUnderscore(Tail(s))
            ELSE <<"_">> \o SpacesToUnderscore(Tail(s))
       ELSE <<Head(s)>> \o SpacesToUnderscore(Tail(s))

RECURSIVE TrimLeft(_)
TrimLeft(s) ==
  IF s # <<>> /\ IsSpace(Head(s)) THEN TrimLeft(Tail(s)) ELSE s

RECURSIVE TrimRight(_)
TrimRight(s) ==
  IF s # <<>> /\ IsSpace(s[Len(s)])
  THEN TrimRight(SubSeq(s, 1, Len(s) - 1))
  ELSE s

\* String.prototype.trim(): strips leading and trailing whitespace
Trim(s) == TrimRight(TrimLeft(s))

\* variant of ServerTitle that collapses whitespace before it strips the
\* disallowed characters
ServerTitleCollapseFirst(raw) ==
  LET t == Trim(StripStd(SpacesToUnderscore(raw)))
  IN  IF t = <<>> THEN DefaultTitle ELSE t

\* the server's title derivation:
\*   title.replace(/[^\w\s-]/g,'').replace(/\s+/g,'_').trim() || 'youtube_audio'
ServerTitle(raw) ==
  LET t == Trim(SpacesToUnderscore(StripStd(raw)))
  IN  IF t = <<>> THEN DefaultTitle ELSE t

\* .substring(0, 50): the longest filename stem the client produces
StemLimit == 50

\* the characters .replace(/[^\w\s]/g, '') keeps
KeptCompat(c) == IsWordChar(c) \/ IsSpace(c)

RECURSIVE StripCompat(_)
\* .replace(/[^\w\s]/g, '')
StripCompat(s) ==
  IF s = <<>> THEN <<>>
  ELSE IF KeptCompat(Head(s)) THEN <<Head(s)>> \o StripCompat(Tail(s))
       ELSE StripCompat(Tail(s))

RECURSIVE CollapseUnderscores(_)
\* .replace(/_+/g, '_'): every maximal run of "_" becomes one "_"
CollapseUnderscores(s) ==
  IF s = <<>> THEN <<>>
  ELSE IF Head(s) = "_" /\ Len(s) > 1 /\ s[2] = "_"
       THEN CollapseUnderscores(Tail(s))
       ELSE <<Head(s)>> \o CollapseUnderscores(Tail(s))

\* .replace(/^_|_$/g, ''): one "_" at the start and one at the end are removed
StripEdgeUnderscores(s) ==
  LET l == IF s # <<>> /\ Head(s) = "_" THEN Tail(s) ELSE s
  IN  IF l # <<>> /\ l[Len(l)] = "_" THEN SubSeq(l, 1, Len(l) - 1) ELSE l

\* variant of Truncate that keeps the whole string
TruncateNone(s) == s

\* .substring(0, 50)
Truncate(s) == IF Len(s) > StemLimit THEN SubSeq(s, 1, StemLimit) ELSE s

\* variant of ClientStem without the 'youtube_audio' fallback
ClientStemNoDefault(t) ==
  Truncate(StripEdgeUnderscores(CollapseUnderscores(
    SpacesToUnderscore(StripCompat(t)))))

\* the client's filename stem:
\*   videoTitle.replace(/[^\w\s]/g,'').replace(/\s+/g,'_').replace(/_+/g,'_')
\*             .replace(/^_|_$/g,'').substring(0,50), 'youtube_audio' if empty
ClientStem(t) ==
  LET c == Truncate(StripEdgeUnderscores(CollapseUnderscores(
             SpacesToUnderscore(StripCompat(t)))))
  IN  IF c = <<>> THEN DefaultTitle ELSE c

\* `${cleanTitle}.mp3`
ClientFilename(t) == ClientStem(t) \o <<".", "m", "p", "3">>

(***************************************************************************)
(* Request bodies.                                                         *)
(***************************************************************************)
\* the value of a destructured field that the body does not have
Undefined == "<undefined>"

\* a url ytdl.validateURL accepts, and one it rejects
GoodUrl == "https://youtu.be/dQw4w9WgXcQ"

BadUrl == "https://example.com/watch"

\* generator only: marks a field left out of the body
Absent == "<absent>"

UrlInputs == {Absent, "", BadUrl, GoodUrl}

BitrateInputs == {Absent, "128", "192", "320"}

SampleRateInputs == {Absent, "16000", "22050", "44100", "48000"}

OldPhoneInputs == {Absent, "true", "false"}

\* the JSON object with the given fields; a field given as Absent is left out
MkBody(u, b, s, o) ==
  LET D == {f \in {"url", "bitrate", "sampleRate", "oldPhoneMode"} :
              \/ f = "url" /\ u # Absent
              \/ f = "bitrate" /\ b # Absent
              \/ f = "sampleRate" /\ s # Absent
              \/ f = "oldPhoneMode" /\ o # Absent}
  IN  [f \in D |-> CASE f = "url" -> u
                     [] f = "bitrate" -> b
                     [] f = "sampleRate" -> s
                     [] f = "oldPhoneMode" -> (o = "true")]

Bodies ==
  {MkBody(u, b, s, o) : u \in UrlInputs, b \in BitrateInputs,
                        s \in SampleRateInputs, o \in OldPhoneInputs}

EmptyBody == MkBody(Absent, Absent, Absent, Absent)

\* const { name = default } = body
Field(b, name, default) == IF name \in DOMAIN b THEN b[name] ELSE default

\* !url
Falsy(v) == v = Undefined \/ v = ""

\* ytdl.validateURL(url)
ValidateURL(u) == u = GoodUrl

\* the locals of POST after destructuring, with the defaults applied
ReqUrl(b) == Field(b, "url", Undefined)

ReqBitrate(b) == Field(b, "bitrate", "128")

ReqSampleRate(b) == Field(b, "sampleRate", "22050")

\* variant of ReqOldPhoneMode whose default is false
ReqOldPhoneModeDefaultFalse(b) == Field(b, "oldPhoneMode", FALSE)

ReqOldPhoneMode(b) == Field(b, "oldPhoneMode", TRUE)

(***************************************************************************)
(* Responses.                                                              *)
(***************************************************************************)
MsgUrlRequired == "URL is required"

MsgInvalidBitrate == "Invalid bitrate. Only 128 and 192 kbps are supported."

MsgInvalidSampleRate ==
  "Invalid sample rate. Only 16000, 22050, and 44100 Hz are supported."

MsgInvalidUrl == "Invalid YouTube URL"

\* no response yet; the fields are those of the two handlers' responses:
\* the HTTP status, the JSON fields error / status / message / title, and for
\* the audio response its bytes and headers
NoResponse ==
  [status |-> 0, error |-> "", jsonStatus |-> "", message |-> "",
   metaTitle |-> <<>>, audio |-> FALSE, data |-> <<>>,
   contentLength |-> 0, xTitle |-> <<>>, xBitrate |-> "",
   xSampleRate |-> "", xOldPhoneMode |-> ""]

\* the download handler's NextResponse.json({ error: msg }, { status: st })
JsonError(st, msg) == [NoResponse EXCEPT !.status = st, !.error = msg]

\* the metadata handler's
\* NextResponse.json({ status: 'error', message: msg }, { status: st })
MetaError(st, msg) ==
  [NoResponse EXCEPT !.status = st, !.jsonStatus = "error", !.message = msg]

\* the error an exception is caught as: an Error with a message, or another value
ErrorValue(isError, msg) == [isError |-> isError, message |-> msg]

NoError == ErrorValue(FALSE, "")

\* error instanceof Error ? error.message : 'Unknown error'
ErrorText(e) == IF e.isError THEN e.message ELSE "Unknown error"

\* variant of ServerError that drops the caught error's message
ServerErrorNoText(e) == JsonError(500, "Server error: Unknown error")

\* the outer catch of the download handler
ServerError(e) == JsonError(500, "Server error: " \o ErrorText(e))

\* the outer catch of the metadata handler
MetaServerError(e) == MetaError(500, "Server error: " \o ErrorText(e))

\* the inner catch of the metadata handler
MetaInfoError(e) == MetaError(500, "Info extraction failed: " \o ErrorText(e))

\* variant of ValidateDownload without the sample rate check
ValidateDownloadNoSampleRate(b) ==
  IF Falsy(ReqUrl(b)) THEN JsonError(400, MsgUrlRequired)
  ELSE IF ReqBitrate(b) \notin {"128", "192"}
       THEN JsonError(400, MsgInvalidBitrate)
  ELSE IF ~ValidateURL(ReqUrl(b)) THEN JsonError(400, MsgInvalidUrl)
  ELSE NoResponse

\* variant of ValidateDownload that checks the sample rate before the bitrate
ValidateDownloadSampleRateFirst(b) ==
  IF Falsy(ReqUrl(b)) THEN JsonError(400, MsgUrlRequired)
  ELSE IF ReqSampleRate(b) \notin {"16000", "22050", "44100"}
       THEN JsonError(400, MsgInvalidSampleRate)
  ELSE IF ReqBitrate(b) \notin {"128", "192"}
       THEN JsonError(400, MsgInvalidBitrate)
  ELSE IF ~ValidateURL(ReqUrl(b)) THEN JsonError(400, MsgInvalidUrl)
  ELSE NoResponse

\* the download handler's validation: the 400 response of the first failed
\* check, or NoResponse when the request passes all four
ValidateDownload(b) ==
  IF Falsy(ReqUrl(b)) THEN JsonError(400, MsgUrlRequired)
  ELSE IF ReqBitrate(b) \notin {"128", "192"}
       THEN JsonError(400, MsgInvalidBitrate)
  ELSE IF ReqSampleRate(b) \notin {"16000", "22050", "44100"}
       THEN JsonError(400, MsgInvalidSampleRate)
  ELSE IF ~ValidateURL(ReqUrl(b)) THEN JsonError(400, MsgInvalidUrl)
  ELSE NoResponse

\* variant of ValidateMetadata that goes straight to the URL predicate
ValidateMetadataNoUrlCheck(b) ==
  IF ~ValidateURL(ReqUrl(b)) THEN MetaError(400, MsgInvalidUrl)
  ELSE NoResponse

\* the metadata handler's validation
ValidateMetadata(b) ==
  IF Falsy(ReqUrl(b)) THEN MetaError(400, MsgUrlRequired)
  ELSE IF ~ValidateURL(ReqUrl(b)) THEN MetaError(400, MsgInvalidUrl)
  ELSE NoResponse

(***************************************************************************)
(* Formats and the format selection of the download handler.               *)
(***************************************************************************)
\* a format of info.formats; audioBitrate 0 stands for a missing bitrate
\* (the code reads it as `format.audioBitrate || 0` and filters on its truth)
Format(itag, hasAudio, hasVideo, audioBitrate) ==
  [itag |-> itag, hasAudio |-> hasAudio, hasVideo |-> hasVideo,
   audioBitrate |-> audioBitrate]

\* `undefined` where a format is expected
NoFormat == Format(0, FALSE, FALSE, 0)

\* bitrates (kbps) the resolver offers for audio-only formats
AudioBitrates == {48, 64, 96, 128, 160, 256, 320}

\* what a format of the resolver looks like, its itag aside: audio-only with
\* a bitrate, audio-only without one, video with audio, video only
FormatKinds ==
  {<<TRUE, FALSE, b>> : b \in AudioBitrates}
    \cup {<<TRUE, FALSE, 0>>, <<TRUE, TRUE, 128>>, <<FALSE, TRUE, 0>>}

\* the format list with the given kinds; the itag is the place in the list
MkFormats(kinds) ==
  [i \in 1..Len(kinds) |-> Format(i, kinds[i][1], kinds[i][2], kinds[i][3])]

\* audio-only formats with the given bitrates, in this order
AudioOnly(bitrates) ==
  [i \in 1..Len(bitrates) |-> Format(i, TRUE, FALSE, bitrates[i])]

\* longer lists the resolver answers with: the candidate lists of the
\* specification's end-to-end scenarios, and an unsorted list with two
\* low-bitrate formats and a high-bitrate one
ExampleLists ==
  {AudioOnly(<<96, 128, 160, 320>>), AudioOnly(<<128, 160>>),
   AudioOnly(<<48, 320, 64>>)}

\* the answers of the resolver for info.formats
FormatLists ==
  {MkFormats(k) : k \in UNION {[1..n -> FormatKinds] : n \in 0..MaxFormats}}
    \cup ExampleLists

RECURSIVE FilterAnyAudio(_)
\* variant of FilterAudioOnly that leaves out the !format.hasVideo test
FilterAnyAudio(fs) ==
  IF fs = <<>> THEN <<>>
  ELSE IF Head(fs).hasAudio
       THEN <<Head(fs)>> \o FilterAnyAudio(Tail(fs))
       ELSE FilterAnyAudio(Tail(fs))

RECURSIVE FilterAudioOnly(_)
\* .filter(format => format.hasAudio && !format.hasVideo)
FilterAudioOnly(fs) ==
  IF fs = <<>> THEN <<>>
  ELSE IF Head(fs).hasAudio /\ ~Head(fs).hasVideo
       THEN <<Head(fs)>> \o FilterAudioOnly(Tail(fs))
       ELSE FilterAudioOnly(Tail(fs))

RECURSIVE FilterHasBitrate(_)
\* .filter(format => format.audioBitrate)
FilterHasBitrate(fs) ==
  IF fs = <<>> THEN <<>>
  ELSE IF Head(fs).audioBitrate # 0
       THEN <<Head(fs)>> \o FilterHasBitrate(Tail(fs))
       ELSE FilterHasBitrate(Tail(fs))

RECURSIVE InsertDesc(_, _)
\* f put into the descending list fs, behind the formats of the same bitrate
InsertDesc(fs, f) ==
  IF fs = <<>> THEN <<f>>
  ELSE IF Head(fs).audioBitrate >= f.audioBitrate
       THEN <<Head(fs)>> \o InsertDesc(Tail(fs), f)
       ELSE <<f>> \o fs

\* variant of SortDesc that leaves the list in the resolver's order
SortNone(fs) == fs

RECURSIVE SortDesc(_)
\* .sort((a, b) => (b.audioBitrate || 0) - (a.audioBitrate || 0)):
\* descending by bitrate, stable
SortDesc(fs) ==
  IF fs = <<>> THEN <<>>
  ELSE InsertDesc(SortDesc(SubSeq(fs, 1, Len(fs) - 1)), fs[Len(fs)])

\* const audioFormats = info.formats.filter(..).filter(..).sort(..)
AudioFormatsOf(fs) == SortDesc(FilterHasBitrate(FilterAudioOnly(fs)))

RECURSIVE FindBetween(_, _, _)
\* .find(format => (format.audioBitrate || 0) <= hi && (format.audioBitrate || 0) >= lo)
FindBetween(fs, lo, hi) ==
  IF fs = <<>> THEN NoFormat
  ELSE IF Head(fs).audioBitrate <= hi /\ Head(fs).audioBitrate >= lo
       THEN Head(fs)
       ELSE FindBetween(Tail(fs), lo, hi)

RECURSIVE FindAtMost(_, _)
\* .find(format => (format.audioBitrate || 0) <= hi)
FindAtMost(fs, hi) ==
  IF fs = <<>> THEN NoFormat
  ELSE IF Head(fs).audioBitrate <= hi THEN Head(fs)
       ELSE FindAtMost(Tail(fs), hi)

RECURSIVE FindAtLeast(_, _)
\* .find(format => (format.audioBitrate || 0) >= lo)
FindAtLeast(fs, lo) ==
  IF fs = <<>> THEN NoFormat
  ELSE IF Head(fs).audioBitrate >= lo THEN Head(fs)
       ELSE FindAtLeast(Tail(fs), lo)

\* a || b on formats
OrElse(a, b) == IF a # NoFormat THEN a ELSE b

\* parseInt(bitrate) for the bitrates that pass validation; 0 for NaN
ParseInt(str) ==
  CASE str = "128" -> 128
    [] str = "192" -> 192
    [] str = "320" -> 320
    [] OTHER -> 0

\* variant of Prefer128 without the one-sided alternative
Prefer128RangeOnly(af) == FindBetween(af, 96, 160)

\* the preference for 128 kbps
Prefer128(af) == OrElse(FindBetween(af, 96, 160), FindAtMost(af, 128))

\* the preference for 192 kbps
Prefer192(af) == OrElse(FindBetween(af, 160, 256), FindAtLeast(af, 192))

\* variant of First that takes the other end of the list
Last(af) == IF af = <<>> THEN NoFormat ELSE af[Len(af)]

\* audioFormats[0]
First(af) == IF af = <<>> THEN NoFormat ELSE af[1]

\* selectedFormat, from the requested bitrate and audioFormats
SelectFormat(bitrate, af) ==
  LET targetBitrate == ParseInt(bitrate)
      preferred == IF targetBitrate = 128 THEN Prefer128(af)
                   ELSE IF targetBitrate = 192 THEN Prefer192(af)
                   ELSE NoFormat
  IN  OrElse(preferred, First(af))

(***************************************************************************)
(* The resolver's answers and the audio stream.                            *)
(***************************************************************************)
\* info.videoDetails.title, as the resolver answers
RawTitles ==
  {<<>>, <<"!", "!", "!">>, <<"H", "i", " ", " ", "-", "4", "!">>}

\* messages of the errors the resolver and its streams fail with
ErrorMessages == {"aborted", "Status code: 403"}

\* the message of the SyntaxError request.json() rejects with
MsgBadJson == "Unexpected end of JSON input"

\* the chunks of an audio stream: byte sequences
Chunks == {<<1>>, <<2, 3>>}

RECURSIVE ConcatReversed(_)
\* variant of Concat that puts the later chunks first
ConcatReversed(cs) ==
  IF cs = <<>> THEN <<>> ELSE ConcatReversed(Tail(cs)) \o Head(cs)

RECURSIVE Concat(_)
\* Buffer.concat(chunks)
Concat(cs) == IF cs = <<>> THEN <<>> ELSE Head(cs) \o Concat(Tail(cs))

\* no ytdl(url, options) call made
NoStream ==
  [made |-> FALSE, format |-> NoFormat, quality |-> "", filter |-> ""]

\* ytdl(url, { format: selectedFormat, requestOptions })
FormatRequest(f) ==
  [made |-> TRUE, format |-> f, quality |-> "", filter |-> ""]

\* ytdl(url, { quality: 'highestaudio', filter: 'audioonly', requestOptions })
BestAudioRequest ==
  [made |-> TRUE, format |-> NoFormat, quality |-> "highestaudio",
   filter |-> "audioonly"]

\* oldPhoneMode.toString()
BoolToString(v) == IF v THEN "true" ELSE "false"

\* the success response of the download handler
AudioResponse(t, b, cs) ==
  [NoResponse EXCEPT
     !.status = 200, !.audio = TRUE, !.data = Concat(cs),
     !.contentLength = Len(Concat(cs)), !.xTitle = t,
     !.xBitrate = ReqBitrate(b), !.xSampleRate = ReqSampleRate(b),
     !.xOldPhoneMode = BoolToString(ReqOldPhoneMode(b))]

\* the success response of the metadata handler; the fields besides status
\* and title (duration, author, viewCount, thumbnail, availableQualities) are
\* copied from the resolver's answer in the same way and are left out
MetaSuccess(raw) ==
  [NoResponse EXCEPT
     !.status = 200, !.jsonStatus = "success", !.metaTitle = raw,
     !.message = "Video info extracted successfully"]

(***************************************************************************)
(* The state machine.                                                      *)
(***************************************************************************)
(***************************************************************************)
(* The client component's state.                                           *)
(***************************************************************************)
\* a second URL that validateYouTubeUrl accepts
OtherUrl == "https://www.youtube.com/watch?v=9bZkp7q19f0"

\* what the user can put into the URL field: nothing, blanks, two YouTube
\* URLs and a URL of another site
ClientUrls == {"", " ", GoodUrl, OtherUrl, BadUrl}

\* url.trim()
UrlTrim(u) == IF u = " " THEN "" ELSE u

\* validateYouTubeUrl(url):
\*   /^(https?:\/\/)?(www\.)?(youtube\.com|youtu\.be)\/.+/.test(url)
ValidateYouTubeUrl(u) == u \in {GoodUrl, OtherUrl}

\* the client's three messages (Bengali in the source): "please enter a
\* YouTube link", "please enter a valid YouTube link", "download failed"
ErrNoUrl == "<please enter a YouTube link>"

ErrInvalidUrl == "<please enter a valid YouTube link>"

ErrDownloadFailed == "<download failed>"

\* what the catch of handleDownload can find in error.message: the error
\* text of the server's answer, or the client's own message
DownloadErrors == {MsgInvalidUrl, ErrDownloadFailed}

\* a value of the state downloadState; error is Undefined when the object
\* has no such key
DownloadState(d, p, s, e) ==
  [isDownloading |-> d, progress |-> p, status |-> s, error |-> e]

\* useState({isDownloading: false, progress: 0, status: 'idle'})
IdleState == DownloadState(FALSE, 0, "idle", Undefined)

\* the metadata of the video at u, as setVideoInfo stores it
InfoOf(u) == [video |-> u]

\* videoInfo = null
NoInfo == [video |-> Undefined]

\* the component after its first render
ClientIdle ==
  /\ url = ""
  /\ downloadState = IdleState
  /\ videoInfo = NoInfo
  /\ isLoadingInfo = FALSE
  /\ downloads = <<>>
  /\ timers = <<>>
  /\ metaReqs = <<>>
  /\ shown = <<>>

\* no title is being sanitized
SanIdle ==
  /\ sanIn = <<>>
  /\ sanPrev = <<>>
  /\ sanOut = <<>>
  /\ sanLog = <<>>

\* no request is being handled
ServerIdle ==
  /\ endpoint = "none"
  /\ pc = "idle"
  /\ parsed = FALSE
  /\ body = EmptyBody
  /\ title = <<>>
  /\ info1 = "none"
  /\ info2 = "none"
  /\ formats = <<>>
  /\ audioFormats = <<>>
  /\ streamReq = NoStream
  /\ chunks = <<>>
  /\ caught = NoError
  /\ calls = <<>>
  /\ response = NoResponse

Init == ServerIdle /\ SanIdle /\ ClientIdle

\* a request arrives at the idle server: every local is fresh
Fresh(ep, ok, b) ==
  /\ pc = "idle"
  /\ endpoint' = ep
  /\ parsed' = ok
  /\ body' = b
  /\ info1' = "none"
  /\ info2' = "none"
  /\ formats' = <<>>
  /\ audioFormats' = <<>>
  /\ streamReq' = NoStream
  /\ chunks' = <<>>
  /\ UNCHANGED nonServerVars

\* request.json() rejects: the outer catch answers 500
ReceiveMalformed ==
  \E ep \in {"download", "metadata"} :
    /\ Fresh(ep, FALSE, EmptyBody)
    /\ title' = <<>>
    /\ caught' = ErrorValue(TRUE, MsgBadJson)
    /\ calls' = <<>>
    /\ response' = IF ep = "download" THEN ServerError(caught')
                   ELSE MetaServerError(caught')
    /\ pc' = "done"

\* the download handler up to its first await of getInfo: destructuring,
\* validation, `let title = 'youtube_audio'`, the call of ytdl.getInfo(url)
ReceiveDownload ==
  \E b \in Bodies :
    /\ Fresh("download", TRUE, b)
    /\ caught' = NoError
    /\ IF ValidateDownload(b) # NoResponse
       THEN /\ response' = ValidateDownload(b)
            /\ title' = <<>>
            /\ calls' = <<>>
            /\ pc' = "done"
       ELSE /\ response' = NoResponse
            /\ title' = DefaultTitle
            /\ calls' = <<"getInfo">>
            /\ pc' = "info1"

\* variant of Info1Resolve without the inner try/catch: a failed getInfo
\* reaches the outer catch
Info1ResolveFatal ==
  /\ pc = "info1"
  /\ \/ /\ \E raw \in RawTitles : info1' = "ok" /\ title' = ServerTitle(raw)
        /\ calls' = Append(calls, "getInfo")
        /\ pc' = "info2"
        /\ UNCHANGED <<caught, response>>
     \/ /\ info1' = "failed"
        /\ \E m \in ErrorMessages : caught' = ErrorValue(TRUE, m)
        /\ response' = ServerError(caught')
        /\ pc' = "done"
        /\ UNCHANGED <<title, calls>>
  /\ UNCHANGED <<endpoint, parsed, body, info2, formats, audioFormats,
                 streamReq, chunks>>
  /\ UNCHANGED nonServerVars

\* the first getInfo settles: the title is derived, or the failure is logged;
\* then getInfo is called again
Info1Resolve ==
  /\ pc = "info1"
  /\ \/ \E raw \in RawTitles : info1' = "ok" /\ title' = ServerTitle(raw)
     \/ info1' = "failed" /\ title' = title
  /\ calls' = Append(calls, "getInfo")
  /\ pc' = "info2"
  /\ UNCHANGED <<endpoint, parsed, body, info2, formats, audioFormats,
                 streamReq, chunks, caught, response>>
  /\ UNCHANGED nonServerVars

\* the second getInfo settles: the format is selected and its stream
\* requested, or the failure is caught and the best audio stream requested
Info2Resolve ==
  /\ pc = "info2"
  /\ \/ \E fs \in FormatLists :
          /\ info2' = "ok"
          /\ formats' = fs
          /\ audioFormats' = AudioFormatsOf(fs)
          /\ streamReq' =
               FormatRequest(SelectFormat(ReqBitrate(body), AudioFormatsOf(fs)))
     \/ /\ info2' = "failed"
        /\ formats' = <<>>
        /\ audioFormats' = <<>>
        /\ streamReq' = BestAudioRequest
  /\ calls' = Append(calls, "stream")
  /\ pc' = "stream"
  /\ UNCHANGED <<endpoint, parsed, body, title, info1, chunks, caught,
                 response>>
  /\ UNCHANGED nonServerVars

\* for await (const chunk of audioStream) chunks.push(chunk)
StreamChunk ==
  /\ pc = "stream"
  /\ Len(chunks) < MaxChunks
  /\ \E c \in Chunks : chunks' = Append(chunks, c)
  /\ formats' = <<>>
  /\ audioFormats' = <<>>
  /\ UNCHANGED <<endpoint, pc, parsed, body, title, info1, info2, streamReq,
                 caught, calls, response>>
  /\ UNCHANGED nonServerVars

\* the stream ends: the chunks are concatenated and returned with status 200
StreamEnd ==
  /\ pc = "stream"
  /\ response' = AudioResponse(title, body, chunks)
  /\ pc' = "done"
  /\ formats' = <<>>
  /\ audioFormats' = <<>>
  /\ UNCHANGED <<endpoint, parsed, body, title, info1, info2, streamReq,
                 chunks, caught, calls>>
  /\ UNCHANGED nonServerVars

\* the stream fails: the loop throws and the outer catch answers 500
StreamFail ==
  /\ pc = "stream"
  /\ \E m \in ErrorMessages : caught' = ErrorValue(TRUE, m)
  /\ response' = ServerError(caught')
  /\ pc' = "done"
  /\ formats' = <<>>
  /\ audioFormats' = <<>>
  /\ UNCHANGED <<endpoint, parsed, body, title, info1, info2, streamReq,
                 chunks, calls>>
  /\ UNCHANGED nonServerVars

\* the metadata handler up to its await of getInfo
ReceiveMetadata ==
  \E b \in Bodies :
    /\ Fresh("metadata", TRUE, b)
    /\ caught' = NoError
    /\ title' = <<>>
    /\ IF ValidateMetadata(b) # NoResponse
       THEN /\ response' = ValidateMetadata(b)
            /\ calls' = <<>>
            /\ pc' = "done"
       ELSE /\ response' = NoResponse
            /\ calls' = <<"getInfo">>
            /\ pc' = "metaInfo"

\* the metadata handler's getInfo settles
MetaInfoResolve ==
  /\ pc = "metaInfo"
  /\ \/ \E raw \in RawTitles :
          /\ info1' = "ok"
          /\ caught' = NoError
          /\ response' = MetaSuccess(raw)
     \/ \E m \in ErrorMessages :
          /\ info1' = "failed"
          /\ caught' = ErrorValue(TRUE, m)
          /\ response' = MetaInfoError(caught')
  /\ pc' = "done"
  /\ UNCHANGED <<endpoint, parsed, body, title, info2, formats, audioFormats,
                 streamReq, chunks, calls>>
  /\ UNCHANGED nonServerVars

\* the response has been returned: the invocation is over and the server
\* waits for the next request
Return ==
  /\ pc = "done"
  /\ endpoint' = "none"
  /\ pc' = "idle"
  /\ parsed' = FALSE
  /\ body' = EmptyBody
  /\ title' = <<>>
  /\ info1' = "none"
  /\ info2' = "none"
  /\ streamReq' = NoStream
  /\ chunks' = <<>>
  /\ caught' = NoError
  /\ calls' = <<>>
  /\ response' = NoResponse
  /\ UNCHANGED <<formats, audioFormats>>
  /\ UNCHANGED nonServerVars

Next ==
  \/ Return
  \/ ReceiveMalformed
  \/ ReceiveDownload
  \/ Info1Resolve
  \/ Info2Resolve
  \/ StreamChunk
  \/ StreamEnd
  \/ StreamFail
  \/ ReceiveMetadata
  \/ MetaInfoResolve

Spec == Init /\ [][Next]_vars

(***************************************************************************)
(* Filename sanitization: the titles it is applied to.                     *)
(***************************************************************************)
\* the characters short titles are made of: a letter, a digit, the
\* underscore, whitespace, the hyphen, and a character neither sanitizer keeps
TitleAlphabet == {"a", "7", "_", " ", "-", "!"}

\* every title over TitleAlphabet of length at most n
TitlesUpTo(n) == UNION {[1..k -> TitleAlphabet] : k \in 0..n}

\* n letters
Fill(n) == [i \in 1..n |-> "a"]

\* titles whose length is around the client's limit: a run of letters, then
\* at most two more characters
LongTitles ==
  {Fill(n) \o t : n \in (StemLimit - 2)..StemLimit, t \in TitlesUpTo(2)}

\* stands for the em dash U+2014, one character that is neither a word
\* character, nor whitespace, nor the hyphen-minus
EmDash == "<U+2014>"

\* 'Official Video! (HD) <em dash> 2024'
OfficialTitle ==
  <<"O", "f", "f", "i", "c", "i", "a", "l", " ", "V", "i", "d", "e", "o", "!", " ", "(", "H", "D", ")", " ",
    EmDash, " ", "2", "0", "2", "4">>

\* 'Official_Video_HD_2024'
OfficialStem ==
  <<"O", "f", "f", "i", "c", "i", "a", "l", "_", "V", "i", "d", "e", "o", "_",
    "H", "D", "_", "2", "0", "2", "4">>

TitleInputs == TitlesUpTo(MaxTitleLen) \cup LongTitles \cup {OfficialTitle}

\* "standard": the server's title derivation; "compat": the client's stem
Modes == {"standard", "compat"}

Sanitize(t, m) == IF m = "compat" THEN ClientStem(t) ELSE ServerTitle(t)

(***************************************************************************)
(* Filename sanitization as a state machine: a title is drawn, then        *)
(* sanitizers are applied to it, each to the result of the one before.     *)
(***************************************************************************)
SanInit ==
  /\ ServerIdle
  /\ ClientIdle
  /\ sanIn \in TitleInputs
  /\ sanPrev = sanIn
  /\ sanOut = sanIn
  /\ sanLog = <<>>

Apply(m) ==
  /\ Len(sanLog) < MaxPasses
  /\ sanPrev' = sanOut
  /\ sanOut' = Sanitize(sanOut, m)
  /\ sanLog' = Append(sanLog, m)
  /\ UNCHANGED <<sanIn, nonSanVars>>

\* the server derives the title it sends in X-Video-Title
ApplyStandard == Apply("standard")

\* the client derives the filename stem from the title it received
ApplyCompat == Apply("compat")

SanNext ==
  \/ ApplyStandard
  \/ ApplyCompat

SanSpec == SanInit /\ [][SanNext]_vars

(***************************************************************************)
(* The client component as a state machine: the user's edits and clicks,   *)
(* the timers, and the completions of the requests of the component.  The  *)
(* server is the environment: a request is answered well or badly.  The    *)
(* quality selection (bitrate, sample rate, compatibility mode) is left    *)
(* out: it only travels in the request body.                               *)
(***************************************************************************)
lookupVars == <<videoInfo, isLoadingInfo, timers, metaReqs>>

\* s without its i-th element
Remove(s, i) == SubSeq(s, 1, i - 1) \o SubSeq(s, i + 1, Len(s))

\* 50 + (progress * 0.4)
ScaleProgress(p) == 50 + (p * 4) \div 10

\* the progress values ps are written, in this order
Record(ps) == IF shown = <<>> THEN <<>> ELSE shown \o ps

\* the user changes the URL field (enabled unless isDownloading):
\* handleUrlChange(newUrl); the function it returns is dropped by onChange
HandleUrlChange ==
  /\ ~downloadState.isDownloading
  /\ \E newUrl \in ClientUrls \ {url} :
       /\ url' = newUrl
       /\ IF UrlTrim(newUrl) # "" /\ ValidateYouTubeUrl(newUrl)
          THEN /\ Len(timers) + Len(metaReqs) < MaxLookups
               /\ timers' = Append(timers, newUrl)
               /\ UNCHANGED videoInfo
          ELSE /\ videoInfo' = NoInfo
               /\ UNCHANGED timers
  /\ UNCHANGED <<downloadState, isLoadingInfo, downloads, metaReqs, shown,
                 nonClientVars>>

\* the oldest timeout fires: fetchVideoInfo(newUrl) up to its await of fetch
FetchVideoInfo ==
  /\ timers # <<>>
  /\ timers' = Tail(timers)
  /\ IF ~ValidateYouTubeUrl(Head(timers))
     THEN UNCHANGED <<videoInfo, isLoadingInfo, metaReqs>>
     ELSE /\ isLoadingInfo' = TRUE
          /\ videoInfo' = NoInfo
          /\ metaReqs' = Append(metaReqs, Head(timers))
  /\ UNCHANGED <<url, downloadState, downloads, shown, nonClientVars>>

\* a metadata request is answered with status 'success'
FetchVideoInfoSuccess ==
  \E i \in DOMAIN metaReqs :
    /\ videoInfo' = InfoOf(metaReqs[i])
    /\ isLoadingInfo' = FALSE
    /\ metaReqs' = Remove(metaReqs, i)
    /\ UNCHANGED <<url, downloadState, downloads, timers, shown,
                   nonClientVars>>

\* a metadata request is answered with another status, or fails
FetchVideoInfoFailure ==
  \E i \in DOMAIN metaReqs :
    /\ isLoadingInfo' = FALSE
    /\ metaReqs' = Remove(metaReqs, i)
    /\ UNCHANGED <<url, downloadState, videoInfo, downloads, timers, shown,
                   nonClientVars>>

\* the user clicks the download button (enabled unless isDownloading or
\* !url.trim()): handleDownload up to its await of fetch
HandleDownload ==
  /\ ~downloadState.isDownloading
  /\ UrlTrim(url) # ""
  /\ IF UrlTrim(url) = ""
     THEN /\ downloadState' =
               [downloadState EXCEPT !.status = "error", !.error = ErrNoUrl]
          /\ UNCHANGED <<downloads, shown>>
     ELSE IF ~ValidateYouTubeUrl(url)
     THEN /\ downloadState' =
               [downloadState EXCEPT !.status = "error",
                                     !.error = ErrInvalidUrl]
          /\ UNCHANGED <<downloads, shown>>
     ELSE /\ Len(downloads) < MaxDownloads
          /\ downloadState' = DownloadState(TRUE, 10, "downloading", Undefined)
          /\ downloads' = Append(downloads, "fetch")
          /\ shown' = <<10>>
  /\ UNCHANGED <<url, lookupVars, nonClientVars>>

\* the user clicks the reset button (rendered unless status is 'idle'):
\* resetDownload; nothing in flight is aborted
ResetDownload ==
  /\ downloadState.status # "idle"
  /\ downloadState' = IdleState
  /\ url' = ""
  /\ videoInfo' = NoInfo
  /\ shown' = <<>>
  /\ UNCHANGED <<isLoadingInfo, downloads, timers, metaReqs, nonClientVars>>

\* the catch of handleDownload, for the invocation at i
Catch(i, m) ==
  /\ downloadState' = DownloadState(FALSE, 0, "error", m)
  /\ downloads' = Remove(downloads, i)
  /\ shown' = Record(<<0>>)
  /\ UNCHANGED <<url, lookupVars, nonClientVars>>

\* the invocation at i writes progress p and suspends at `to`
Progress(i, p, to) ==
  /\ downloadState' = [downloadState EXCEPT !.progress = p]
  /\ downloads' = [downloads EXCEPT ![i] = to]
  /\ shown' = Record(<<p>>)
  /\ UNCHANGED <<url, lookupVars, nonClientVars>>

\* fetch('/api/download') resolves with response.ok
DownloadResponseOk ==
  \E i \in DOMAIN downloads :
    /\ downloads[i] = "fetch"
    /\ downloadState' =
         [downloadState EXCEPT !.progress = 50, !.status = "converting"]
    /\ downloads' = [downloads EXCEPT ![i] = "buffer"]
    /\ shown' = Record(<<50>>)
    /\ UNCHANGED <<url, lookupVars, nonClientVars>>

\* fetch rejects, or resolves with !response.ok: the error is thrown
DownloadResponseFail ==
  \E i \in DOMAIN downloads, m \in DownloadErrors :
    downloads[i] = "fetch" /\ Catch(i, m)

\* response.arrayBuffer() resolves; convertToMp3 starts: onProgress(20)
ConvertStart ==
  \E i \in DOMAIN downloads :
    downloads[i] = "buffer" /\ Progress(i, ScaleProgress(20), "wait1")

\* response.arrayBuffer() rejects
BufferFail ==
  \E i \in DOMAIN downloads :
    downloads[i] = "buffer" /\ Catch(i, ErrDownloadFailed)

\* convertToMp3 after its first delay: onProgress(50)
ConvertProgress50 ==
  \E i \in DOMAIN downloads :
    downloads[i] = "wait1" /\ Progress(i, ScaleProgress(50), "wait2")

\* convertToMp3 after its second delay: onProgress(80)
ConvertProgress80 ==
  \E i \in DOMAIN downloads :
    downloads[i] = "wait2" /\ Progress(i, ScaleProgress(80), "wait3")

\* convertToMp3 after its third delay: onProgress(100), the blob resolves,
\* handleDownload marks the download completed and saves the file
ConvertDone ==
  \E i \in DOMAIN downloads :
    /\ downloads[i] = "wait3"
    /\ downloadState' =
         [downloadState EXCEPT !.progress = 100, !.status = "completed"]
    /\ downloads' = Remove(downloads, i)
    /\ shown' = Record(<<ScaleProgress(100), 100>>)
    /\ UNCHANGED <<url, lookupVars, nonClientVars>>

ClientNext ==
  \/ HandleUrlChange
  \/ FetchVideoInfo
  \/ FetchVideoInfoSuccess
  \/ FetchVideoInfoFailure
  \/ HandleDownload
  \/ ResetDownload
  \/ DownloadResponseOk
  \/ DownloadResponseFail
  \/ ConvertStart
  \/ BufferFail
  \/ ConvertProgress50
  \/ ConvertProgress80
  \/ ConvertDone

ClientSpec == Init /\ [][ClientNext]_vars

(***************************************************************************)
(* Vocabulary of the properties.                                           *)
(***************************************************************************)
\* the formats of a list, as a set
FormatSet(fs) == {fs[i] : i \in DOMAIN fs}

\* the candidates selection may choose from: audio-only with a known bitrate
Candidates(fs) ==
  {f \in FormatSet(fs) : f.hasAudio /\ ~f.hasVideo /\ f.audioBitrate > 0}

\* the ideal range of a bitrate class
IdealRange(class) == IF class = "128" THEN 96..160 ELSE 160..256

\* the one-sided rule of a bitrate class
OneSided(class, kbps) == IF class = "128" THEN kbps <= 128 ELSE kbps >= 192

IdealCandidates(class, fs) ==
  {f \in Candidates(fs) : f.audioBitrate \in IdealRange(class)}

OneSidedCandidates(class, fs) ==
  {f \in Candidates(fs) : OneSided(class, f.audioBitrate)}

\* f comes first among the formats of S in descending order of bitrate,
\* formats of equal bitrate in the order of the resolver's list
FirstDescending(f, S) ==
  /\ f \in S
  /\ \A g \in S : \/ g.audioBitrate < f.audioBitrate
                  \/ g.audioBitrate = f.audioBitrate /\ g.itag >= f.itag

\* the bitrate class of the request being handled (the default applied)
Class == IF "bitrate" \in DOMAIN body THEN body.bitrate ELSE "128"

\* the format the selection step chose
Selected == streamReq.format

\* the download handler has just selected from the resolver's list `formats`
JustSelected ==
  /\ endpoint = "download"
  /\ pc = "stream"
  /\ info2 = "ok"
  /\ chunks = <<>>

(***************************************************************************)
(* C1.  Amended: for both bitrate classes and every candidate list with at *)
(* least one audio-only format of known bitrate, the selected format is a  *)
(* member of the list with hasAudio = true and hasVideo = false; for every *)
(* list, a video-containing format is never the selected one (without an   *)
(* audio-only format of known bitrate nothing is selected).                *)
(***************************************************************************)
C1_SelectedIsAudioOnly ==
  JustSelected =>
    /\ Class \in {"128", "192"}
    /\ Candidates(formats) # {} =>
         /\ Selected \in FormatSet(formats)
         /\ Selected.hasAudio
         /\ ~Selected.hasVideo
    /\ Candidates(formats) = {} => Selected = NoFormat
    /\ ~Selected.hasVideo

\* C1 witness: a list holding a video format with audio and an audio-only
\* format, of which the audio-only one was selected
C1_Witness ==
  /\ JustSelected
  /\ \E f \in FormatSet(formats) : f.hasVideo /\ f.hasAudio
  /\ Selected \in Candidates(formats)

\* C1 as stated: for every non-empty list of the resolver the selected
\* format is an audio-only member of it
C1_Original ==
  (JustSelected /\ formats # <<>>) =>
    /\ Selected \in FormatSet(formats)
    /\ Selected.hasAudio
    /\ ~Selected.hasVideo

(***************************************************************************)
(* C2.  If a candidate lies in the ideal range of the requested class, the *)
(* selected format is the highest-bitrate candidate of that range: 160 for *)
(* class 128 and 96/128/160/320, 160 for class 192 and 128/160.            *)
(***************************************************************************)
C2_IdealRangeHighest ==
  JustSelected =>
    /\ IdealCandidates(Class, formats) # {} =>
         FirstDescending(Selected, IdealCandidates(Class, formats))
    /\ (Class = "128" /\ formats = AudioOnly(<<96, 128, 160, 320>>)) =>
         Selected.audioBitrate = 160
    /\ (Class = "192" /\ formats = AudioOnly(<<128, 160>>)) =>
         Selected.audioBitrate = 160

\* C2 witness: class 128, candidates 96/128/160/320, 160 selected
C2_Witness ==
  /\ JustSelected
  /\ Class = "128"
  /\ formats = AudioOnly(<<96, 128, 160, 320>>)
  /\ Selected = formats[3]

(***************************************************************************)
(* C3.  If no candidate lies in the ideal range but one satisfies the      *)
(* one-sided rule (<= 128 for class 128, >= 192 for class 192), the        *)
(* selected format is the first one-sided match in descending order of     *)
(* bitrate, also when the highest-bitrate candidate is another one.        *)
(***************************************************************************)
C3_OneSidedBeforeHighest ==
  (/\ JustSelected
   /\ IdealCandidates(Class, formats) = {}
   /\ OneSidedCandidates(Class, formats) # {}) =>
    FirstDescending(Selected, OneSidedCandidates(Class, formats))

\* C3 witness: class 128, nothing in 96..160, a one-sided match selected
\* that is neither the highest candidate nor the only one-sided match
C3_Witness ==
  /\ JustSelected
  /\ Class = "128"
  /\ IdealCandidates(Class, formats) = {}
  /\ Selected \in OneSidedCandidates(Class, formats)
  /\ \E g \in Candidates(formats) : g.audioBitrate > Selected.audioBitrate
  /\ \E g \in OneSidedCandidates(Class, formats) :
        g.audioBitrate < Selected.audioBitrate

(***************************************************************************)
(* C4.  When there are candidates but none satisfies the ideal-range or    *)
(* the one-sided rule, the highest-bitrate candidate is selected and the   *)
(* handler goes on to request its stream: no error response is produced.   *)
(***************************************************************************)
C4_FallbackHighest ==
  (/\ endpoint = "download"
   /\ Candidates(formats) # {}
   /\ IdealCandidates(Class, formats) = {}
   /\ OneSidedCandidates(Class, formats) = {}) =>
    /\ FirstDescending(Selected, Candidates(formats))
    /\ pc = "stream"
    /\ streamReq = FormatRequest(Selected)
    /\ response = NoResponse
    /\ caught = NoError

\* C4 witness: class 192 with two candidates below 160, the higher selected
C4_Witness ==
  /\ JustSelected
  /\ Class = "192"
  /\ Cardinality(Candidates(formats)) = 2
  /\ IdealCandidates(Class, formats) = {}
  /\ OneSidedCandidates(Class, formats) = {}
  /\ \E g \in Candidates(formats) : g.audioBitrate < Selected.audioBitrate

(***************************************************************************)
(* C5.  When the resolver answered but no format is audio-only with a      *)
(* known bitrate, nothing is selected and the handler requests the 'best   *)
(* audio' stream restricted to audio-only formats.                         *)
(***************************************************************************)
C5_EmptyFallsBackToBestAudio ==
  (JustSelected /\ Candidates(formats) = {}) =>
    /\ Selected = NoFormat
    /\ streamReq = BestAudioRequest

(***************************************************************************)
(* Vocabulary of the validation properties.                                *)
(***************************************************************************)
\* the request has a non-empty url
HasUrl == "url" \in DOMAIN body /\ body.url # ""

\* the request's bitrate (the default '128' when it gives none) is legal
BitrateLegal == "bitrate" \in DOMAIN body => body.bitrate \in {"128", "192"}

\* the request's sample rate (the default '22050' when it gives none) is legal
SampleRateLegal ==
  "sampleRate" \in DOMAIN body =>
    body.sampleRate \in {"16000", "22050", "44100"}

\* the resolver's URL predicate accepts the request's url
UrlRecognised == HasUrl /\ body.url = GoodUrl

PassesValidation ==
  HasUrl /\ BitrateLegal /\ SampleRateLegal /\ UrlRecognised

\* a download request whose body was parsed has been answered
DownloadAnswered == endpoint = "download" /\ pc = "done" /\ parsed

(***************************************************************************)
(* C6.  The download handler asks the resolver for nothing (no getInfo, no *)
(* stream) unless the request has a non-empty url, a legal bitrate, a      *)
(* legal sample rate and a url the resolver's predicate accepts; a request *)
(* failing a check is answered 400 and never reaches format selection.     *)
(***************************************************************************)
C6_NoResolverCallBeforeValidation ==
  endpoint = "download" =>
    /\ (\/ calls # <<>>
        \/ streamReq.made
        \/ info1 # "none"
        \/ info2 # "none"
        \/ pc \in {"info1", "info2", "stream"}) => PassesValidation
    /\ (DownloadAnswered /\ ~PassesValidation) =>
         /\ response.status = 400
         /\ calls = <<>>
         /\ ~streamReq.made
         /\ info2 = "none"

\* C6 witness: only the sample rate is illegal, and the request was
\* answered 400 with no resolver call
C6_Witness ==
  /\ DownloadAnswered
  /\ HasUrl /\ UrlRecognised /\ BitrateLegal /\ ~SampleRateLegal
  /\ response.status = 400
  /\ calls = <<>>

(***************************************************************************)
(* C7.  A body without a url field is answered 400 'URL is required' by    *)
(* both handlers, whatever its other fields are, and never 500.            *)
(***************************************************************************)
C7_MissingUrlIs400 ==
  (pc = "done" /\ parsed /\ "url" \notin DOMAIN body) =>
    /\ response.status = 400
    /\ endpoint = "download" => response.error = MsgUrlRequired
    /\ endpoint = "metadata" => response.message = MsgUrlRequired

\* C7 witness: the metadata handler answered a body that has other fields
\* but no url
C7_Witness ==
  /\ pc = "done" /\ parsed
  /\ endpoint = "metadata"
  /\ "url" \notin DOMAIN body
  /\ "bitrate" \in DOMAIN body
  /\ response.status = 400
  /\ response.message = MsgUrlRequired

(***************************************************************************)
(* C8.  The four rejections of the download handler answer 400 with four   *)
(* different messages, and a request breaking several rules gets the       *)
(* message of the first broken rule in the order url missing, bitrate,     *)
(* sample rate, url not recognised.                                        *)
(***************************************************************************)
C8_FirstViolatedRule ==
  /\ Cardinality({MsgUrlRequired, MsgInvalidBitrate, MsgInvalidSampleRate,
                  MsgInvalidUrl}) = 4
  /\ DownloadAnswered =>
       /\ ~HasUrl =>
            response.status = 400 /\ response.error = MsgUrlRequired
       /\ (HasUrl /\ ~BitrateLegal) =>
            response.status = 400 /\ response.error = MsgInvalidBitrate
       /\ (HasUrl /\ BitrateLegal /\ ~SampleRateLegal) =>
            response.status = 400 /\ response.error = MsgInvalidSampleRate
       /\ (HasUrl /\ BitrateLegal /\ SampleRateLegal /\ ~UrlRecognised) =>
            response.status = 400 /\ response.error = MsgInvalidUrl

\* C8 witness: bitrate, sample rate and url are all bad, and the answer is
\* the bitrate message
C8_Witness ==
  /\ DownloadAnswered
  /\ HasUrl /\ ~BitrateLegal /\ ~SampleRateLegal /\ ~UrlRecognised
  /\ response.status = 400
  /\ response.error = MsgInvalidBitrate

(***************************************************************************)
(* C9.  A failed metadata retrieval is not an error of the request.  When  *)
(* the getInfo for the title fails the title is 'youtube_audio'; when the  *)
(* getInfo for the format list fails the 'best audio' stream is requested; *)
(* in both cases the stream is still requested and, when it ends without   *)
(* failure, the answer is 200 with the audio bytes.                        *)
(***************************************************************************)
C9_MetadataFailureNotFatal ==
  endpoint = "download" =>
    /\ info1 = "failed" =>
         /\ title = DefaultTitle
         /\ pc \in {"info2", "stream", "done"}
         /\ pc = "done" => streamReq.made
    /\ info2 = "failed" =>
         /\ streamReq = BestAudioRequest
         /\ calls = <<"getInfo", "getInfo", "stream">>
    /\ (pc = "done" /\ caught = NoError /\ (info1 = "failed" \/ info2 = "failed")) =>
         /\ response.status = 200
         /\ response.audio
         /\ response.data = Concat(chunks)
         /\ info1 = "failed" => response.xTitle = DefaultTitle

\* C9 witness: both getInfo calls failed and the answer is 200 with bytes
\* and the default title
C9_Witness ==
  /\ endpoint = "download" /\ pc = "done"
  /\ info1 = "failed" /\ info2 = "failed"
  /\ streamReq = BestAudioRequest
  /\ response.status = 200
  /\ response.data # <<>>
  /\ response.xTitle = DefaultTitle

(***************************************************************************)
(* C10.  When the audio stream fails, the answer is 500 with the JSON      *)
(* error 'Server error: ' followed by the caught error's message, and no   *)
(* bytes are sent; a 200 answer is only given for a stream that ended.     *)
(***************************************************************************)
C10_StreamFailureIs500 ==
  (endpoint = "download" /\ pc = "done" /\ streamReq.made) =>
    /\ caught # NoError =>
         /\ response.status = 500
         /\ response.error = "Server error: " \o caught.message
         /\ ~response.audio
         /\ response.data = <<>>
    /\ response.status = 200 => caught = NoError

\* C10 witness: the stream failed after a chunk had arrived
C10_Witness ==
  /\ endpoint = "download" /\ pc = "done" /\ streamReq.made
  /\ chunks # <<>>
  /\ caught = ErrorValue(TRUE, "aborted")
  /\ response.status = 500
  /\ response.error = "Server error: aborted"

(***************************************************************************)
(* Filename sanitization (C11 - C15), under SanSpec.                       *)
(***************************************************************************)
\* a sanitizer has been applied, and this is the mode of the last one
Sanitized(m) == sanLog # <<>> /\ sanLog[Len(sanLog)] = m

\* '!!!'
OnlyPunctuation == <<"!", "!", "!">>

\* C11: sanitization never returns the empty string, in both modes and for
\* every title; the empty title and the title '!!!' both give the default
\* 'youtube_audio'.
C11_NeverEmpty ==
  sanLog # <<>> =>
    /\ sanOut # <<>>
    /\ sanPrev \in {<<>>, OnlyPunctuation} => sanOut = DefaultTitle

C11_Witness ==
  /\ sanLog = <<"compat">>
  /\ sanIn = OnlyPunctuation
  /\ sanOut = DefaultTitle

\* C12: sanitization is idempotent in each mode: applying the sanitizer of
\* mode m to its own output gives the same string, also when the
\* compatibility result is cut at 50 characters.
C12_Idempotent ==
  (Len(sanLog) = 2 /\ sanLog[1] = sanLog[2]) => sanOut = sanPrev

\* C13: in compatibility mode the stem has length 1..50 and consists only of
\* A-Z, a-z, 0-9 and the underscore, for every title.
C13_CompatStemShape ==
  Sanitized("compat") =>
    /\ Len(sanOut) \in 1..StemLimit
    /\ \A i \in DOMAIN sanOut : IsWordChar(sanOut[i])

C13_Witness ==
  /\ Sanitized("compat")
  /\ Len(sanPrev) > StemLimit
  /\ Len(sanOut) = StemLimit

\* C14: in standard mode the sanitized title has no leading and no trailing
\* underscore, and a title that is empty after stripping and trimming (a
\* title of only whitespace) is replaced by 'youtube_audio'.
C14_StandardTrimmed ==
  Sanitized("standard") =>
    /\ sanOut[1] # "_"
    /\ sanOut[Len(sanOut)] # "_"
    /\ Trim(StripStd(sanPrev)) = <<>> => sanOut = DefaultTitle

\* C15: disallowed characters are removed before whitespace is collapsed, so
\* the whitespace left around removed punctuation becomes one underscore:
\* 'Official Video! (HD) <em dash> 2024' is sent by the server as
\* 'Official_Video_HD_2024', and the client's stem of that is
\* 'Official_Video_HD_2024'.
C15_OfficialVideo ==
  (sanIn = OfficialTitle /\ sanLog = <<"standard", "compat">>) =>
    /\ sanPrev = OfficialStem
    /\ sanOut = OfficialStem

C15_Witness ==
  /\ sanIn = OfficialTitle
  /\ sanLog = <<"standard", "compat">>
  /\ sanOut = OfficialStem

(***************************************************************************)
(* No automatic retry (C19), under Spec.                                   *)
(***************************************************************************)
\* the metadata requests made to the resolver for the current request
MetadataCalls == {i \in DOMAIN calls : calls[i] = "getInfo"}

\* C19: errors are never retried automatically: for one audio download
\* request the server asks the resolver for metadata at most once, and does
\* not repeat a resolver operation that failed.
C19_MetadataAskedOnce ==
  endpoint = "download" => Cardinality(MetadataCalls) <= 1

(***************************************************************************)
(* The client component (C16 - C18, C20), under ClientSpec.                *)
(***************************************************************************)
\* the download requests sent and not yet answered
RequestsInFlight == {i \in DOMAIN downloads : downloads[i] = "fetch"}

\* C16: in one client session at most one audio download request is in
\* flight at any time, however the clicks on download and reset and the URL
\* edits interleave with the completion of the request.
C16_OneRequestInFlight == Cardinality(RequestsInFlight) <= 1

\* C17: the status changes only along idle -> downloading -> converting ->
\* completed (or error, or idle by a reset); in particular 'converting' and
\* 'completed' are never entered from 'idle'.
C17_NoShortcutFromIdle ==
  [][downloadState.status = "idle" =>
       downloadState'.status \notin {"converting", "completed"}]_vars

\* C18: the metadata lookup is debounced: an edit of the URL cancels the
\* lookup scheduled by an earlier edit whose delay has not elapsed, so at
\* most one lookup is pending.
C18_Debounced == Len(timers) <= 1

\* 10, 50, 58, 70, 82, 90, 100
FullProgress == <<10, 50, 58, 70, 82, 90, 100>>

IsPrefix(a, b) == Len(a) <= Len(b) /\ a = SubSeq(b, 1, Len(a))

RECURSIVE Distinct(_)
\* s without the elements that repeat their predecessor
Distinct(s) ==
  IF Len(s) < 2 THEN s
  ELSE IF s[1] = s[2] THEN Distinct(Tail(s))
       ELSE <<s[1]>> \o Distinct(Tail(s))

\* the values the progress bar has displayed since the download was
\* started: writing the value already displayed changes nothing
Displayed == Distinct(shown)

\* C20: during a download that no reset has interrupted the progress shown
\* never decreases and stays within 0..100: the values are 10, 50, 58, 70,
\* 82, 90 and finally 100, together with status 'completed'.
C20_ProgressSequence ==
  (shown # <<>> /\ downloadState.status # "error") =>
    /\ IsPrefix(Displayed, FullProgress)
    /\ downloadState.progress = shown[Len(shown)]
    /\ downloadState.status = "completed" <=> Displayed = FullProgress

(***************************************************************************)
(* The success response of the download handler (C21, C22), under Spec.    *)
(***************************************************************************)
\* the download handler has answered 200
DownloadSucceeded == endpoint = "download" /\ response.status = 200

RECURSIVE TotalLength(_)
\* the sum of the lengths of the chunks cs
TotalLength(cs) ==
  IF cs = <<>> THEN 0 ELSE Len(Head(cs)) + TotalLength(Tail(cs))

\* the bytes of the i-th chunk stand in d right after those of the chunks
\* that arrived before it
ChunkInPlace(d, i) ==
  LET before == TotalLength(SubSeq(chunks, 1, i - 1))
  IN  /\ before + Len(chunks[i]) <= Len(d)
      /\ SubSeq(d, before + 1, before + Len(chunks[i])) = chunks[i]

\* C21: the success response is sent only after the stream has ended: its
\* body is the concatenation of all received chunks in arrival order,
\* unmodified, Content-Length is the sum of the chunk lengths, and there is
\* no response while chunks are still arriving.
C21_BodyIsAllChunksInOrder ==
  /\ (endpoint = "download" /\ pc = "stream") => response = NoResponse
  /\ DownloadSucceeded =>
       /\ pc = "done"
       /\ \A i \in DOMAIN chunks : ChunkInPlace(response.data, i)
       /\ Len(response.data) = TotalLength(chunks)
       /\ response.contentLength = TotalLength(chunks)

C21_Witness ==
  /\ DownloadSucceeded
  /\ Len(chunks) = 2
  /\ chunks[1] # chunks[2]
  /\ response.contentLength = 3

\* the value of field f the request asked for, d when the body leaves f out
Requested(f, d) == IF f \in DOMAIN body THEN body[f] ELSE d

\* C22: on success the response echoes the request's quality parameters
\* unchanged: X-Bitrate and X-Sample-Rate are the requested values,
\* X-Old-Phone-Mode is the requested flag, and a request that omits them is
\* answered as '128', '22050' and 'true'.
C22_QualityEchoed ==
  DownloadSucceeded =>
    /\ response.xBitrate = Requested("bitrate", "128")
    /\ response.xSampleRate = Requested("sampleRate", "22050")
    /\ response.xOldPhoneMode =
         (IF Requested("oldPhoneMode", TRUE) THEN "true" ELSE "false")

C22_Witness ==
  /\ DownloadSucceeded
  /\ DOMAIN body = {"url"}
  /\ response.xBitrate = "128"
  /\ response.xSampleRate = "22050"
  /\ response.xOldPhoneMode = "true"

(***************************************************************************)
(* The client component (C23 - C25), under ClientSpec.                     *)
(***************************************************************************)
\* C23: in every reachable client state isDownloading is true exactly when
\* status is 'downloading' or 'converting'; in particular it is false once
\* status is 'completed'.
C23_FlagClearedWhenCompleted ==
  downloadState.status = "completed" => ~downloadState.isDownloading

\* C24: after a reset the download state is {idle, 0, false} and stays so
\* until the user starts a new download: the completion of a request that
\* was in flight at the reset changes neither status nor progress and saves
\* no file.
C24_IdleUntilNewDownload ==
  [][downloadState = IdleState =>
       (downloadState' = IdleState \/ HandleDownload)]_vars

\* C25: the metadata displayed belongs to the URL in the field: videoInfo is
\* null or the metadata of the current URL, and it is null whenever the
\* current URL is empty or fails the client's URL check.
C25_InfoMatchesUrl ==
  \/ videoInfo = NoInfo
  \/ /\ videoInfo = InfoOf(url)
     /\ UrlTrim(url) # ""
     /\ ValidateYouTubeUrl(url)

====
